---- MODULE Spec2Model ----
(***************************************************************************)
(* A model of the CSS parser (src/src/css.rs), the DOM accessors           *)
(* (src/src/dom.rs) and the cascade / style tree builder                   *)
(* (src/src/style.rs).                                                     *)
(*                                                                         *)
(* Texts are TLA+ strings; a parser position is a 1-based index into the   *)
(* text.  A Rust panic (unwrap on None/Err, panic!, slice out of bounds)   *)
(* is the result Panic; every parsing operator returns either Panic or a   *)
(* record [ok |-> TRUE, pos |-> position after it, val |-> its value].     *)
(* Option<T> is a sequence of length 0 (None) or 1 (Some).                 *)
(***************************************************************************)
EXTENDS Integers, Sequences, FiniteSets, TLC

VARIABLES
    source,     \* the CSS text handed to css::parse (main.rs: `css`)
    sheets,     \* the stylesheets handed to style_tree (main.rs: `stylesheets`)
    doc,        \* the document tree: a sequence of nodes, each with its parent's index
    stack,      \* the nodes style_tree_with_parent still has to visit (call stack)
    cascaded,   \* per visited element: what specified_values returned for it
    styled,     \* per visited node: StyledNode.specified_values
    pc          \* where the run is: "parse", "style", "done" or "panicked"

vars == <<source, sheets, doc, stack, cascaded, styled, pc>>

-----------------------------------------------------------------------------
(* Option<T>                                                               *)

None == <<>>

Some(x) == <<x>>

-----------------------------------------------------------------------------
(* Characters                                                              *)

LowerLetters == "abcdefghijklmnopqrstuvwxyz"

UpperLetters == "ABCDEFGHIJKLMNOPQRSTUVWXYZ"

DecimalDigits == "0123456789"

CharsOf(s) == { SubSeq(s, i, i) : i \in 1..Len(s) }

\* css.rs valid_identifier_char: 'a'..='z' | 'A'..='Z' | '0'..='9' | '-' | '_'
valid_identifier_char == CharsOf(LowerLetters) \cup CharsOf(UpperLetters)
                            \cup CharsOf(DecimalDigits) \cup {"-", "_"}

\* char::is_whitespace, on the ASCII characters
is_whitespace == {" ", "\t", "\n"}

\* The half-open pattern '0'..'9' of parse_value and parse_float: '0' to '8'.
DigitRange == CharsOf(DecimalDigits) \ {"9"}

\* The characters parse_float accumulates: '0'..'9' | '.'
FloatChars == DigitRange \cup {"."}

HexDigits == "0123456789abcdef"

IndexIn(s, c) == CHOOSE i \in 1..Len(s) : SubSeq(s, i, i) = c

\* char::to_ascii_lowercase
LowerChar(c) == IF c \in CharsOf(UpperLetters)
                THEN LET i == IndexIn(UpperLetters, c) IN SubSeq(LowerLetters, i, i)
                ELSE c

RECURSIVE to_ascii_lowercase(_)
to_ascii_lowercase(s) ==
    IF s = "" THEN "" ELSE LowerChar(Head(s)) \o to_ascii_lowercase(Tail(s))

-----------------------------------------------------------------------------
(* Text cursor (css.rs Parser)                                             *)

Panic == [ok |-> FALSE]

Ok(p, v) == [ok |-> TRUE, pos |-> p, val |-> v]

\* `let v = ...;` followed by the rest of the function body K
Bind(v, K(_)) == K(v)

\* a call that may panic, followed by the rest of the function body K
Then(r, K(_)) == IF r.ok THEN K(r) ELSE Panic

eof(inp, p) == p > Len(inp)

\* next_char: only used where the caller has dealt with eof (else it panics)
next_char(inp, p) == SubSeq(inp, p, p)

starts_with(inp, p, s) ==
    /\ p + Len(s) - 1 <= Len(inp)
    /\ SubSeq(inp, p, p + Len(s) - 1) = s

\* consume_while: the position of the first character, from p on, outside `test`
RECURSIVE consume_while(_, _, _)
consume_while(inp, p, test) ==
    IF ~eof(inp, p) /\ next_char(inp, p) \in test
    THEN consume_while(inp, p + 1, test)
    ELSE p

consume_whitespace(inp, p) == consume_while(inp, p, is_whitespace)

\* expect_char: consume_char panics at eof (next_char unwraps None)
expect_char(inp, p, c) ==
    IF eof(inp, p) \/ next_char(inp, p) # c THEN Panic ELSE Ok(p + 1, c)

parse_identifier(inp, p) ==
    Bind(consume_while(inp, p, valid_identifier_char),
         LAMBDA q : Ok(q, SubSeq(inp, p, q - 1)))

-----------------------------------------------------------------------------
(* Values (css.rs Value)                                                   *)

Keyword(s) == [kind |-> "Keyword", s |-> s]

\* A length holds its number as mantissa / 10^scale, trailing zeros removed.
Length(m, sc) == [kind |-> "Length", num |-> m, scale |-> sc, unit |-> "Px"]

ColorValue(r, g, b, a) == [kind |-> "ColorValue", r |-> r, g |-> g, b |-> b, a |-> a]

Inherit == [kind |-> "Inherit"]

DigitValue(c) == IndexIn(HexDigits, LowerChar(c)) - 1

RECURSIVE DecimalOf(_)
DecimalOf(s) ==
    IF s = "" THEN 0
    ELSE 10 * DecimalOf(SubSeq(s, 1, Len(s) - 1)) + DigitValue(SubSeq(s, Len(s), Len(s)))

RECURSIVE Normalize(_, _)
Normalize(m, sc) ==
    IF sc > 0 /\ m % 10 = 0 THEN Normalize(m \div 10, sc - 1) ELSE <<m, sc>>

CountChar(s, c) == Cardinality({ i \in 1..Len(s) : SubSeq(s, i, i) = c })

\* the number written as `whole`.`frac`
Decimal(whole, frac) == Normalize(DecimalOf(whole \o frac), Len(frac))

\* str::parse::<f32> on a text of digits and dots: Err unless it has at least
\* one digit and at most one '.'
ParseF32(s) ==
    Bind(CountChar(s, "."), LAMBDA dots :
        IF dots > 1 \/ Len(s) - dots = 0 THEN None
        ELSE IF dots = 0 THEN Some(Decimal(s, ""))
        ELSE Bind(IndexIn(s, "."), LAMBDA d :
                Some(Decimal(SubSeq(s, 1, d - 1), SubSeq(s, d + 1, Len(s))))))

parse_float(inp, p) ==
    Bind(consume_while(inp, p, FloatChars), LAMBDA q :
        Bind(ParseF32(SubSeq(inp, p, q - 1)), LAMBDA f :
            IF f = None THEN Panic ELSE Ok(q, f[1])))

parse_unit(inp, p) ==
    Bind(parse_identifier(inp, p), LAMBDA id :
        IF to_ascii_lowercase(id.val) = "px" THEN Ok(id.pos, "Px") ELSE Panic)

parse_length(inp, p) ==
    Then(parse_float(inp, p), LAMBDA f :
        Then(parse_unit(inp, f.pos), LAMBDA u :
            Ok(u.pos, Length(f.val[1], f.val[2]))))

HexChars == CharsOf(HexDigits) \cup CharsOf("ABCDEF")

\* u8::from_str_radix on the characters c1 c2 (a leading '+' is accepted)
from_str_radix16(c1, c2) ==
    IF c2 \notin HexChars THEN None
    ELSE IF c1 = "+" THEN Some(DigitValue(c2))
    ELSE IF c1 \notin HexChars THEN None
    ELSE Some(16 * DigitValue(c1) + DigitValue(c2))

\* parse_hex_pair: the slice input[pos..pos+2] out of bounds panics, and so does
\* the unwrap of a text that is not hex
parse_hex_pair(inp, p) ==
    IF p + 1 > Len(inp) THEN Panic
    ELSE Bind(from_str_radix16(SubSeq(inp, p, p), SubSeq(inp, p + 1, p + 1)), LAMBDA n :
            IF n = None THEN Panic ELSE Ok(p + 2, n[1]))

parse_color(inp, p) ==
    Then(expect_char(inp, p, "#"), LAMBDA h :
        Then(parse_hex_pair(inp, h.pos), LAMBDA r :
            Then(parse_hex_pair(inp, r.pos), LAMBDA g :
                Then(parse_hex_pair(inp, g.pos), LAMBDA b :
                    Ok(b.pos, ColorValue(r.val, g.val, b.val, 255))))))

\* the `_` arm of parse_value
parse_keyword(inp, p) ==
    Bind(parse_identifier(inp, p), LAMBDA id :
        IF id.val = "inherit" THEN Ok(id.pos, Inherit) ELSE Ok(id.pos, Keyword(id.val)))

parse_value(inp, p) ==
    IF eof(inp, p) THEN Panic
    ELSE IF next_char(inp, p) \in DigitRange THEN parse_length(inp, p)
    ELSE IF next_char(inp, p) = "#" THEN parse_color(inp, p)
    ELSE parse_keyword(inp, p)

-----------------------------------------------------------------------------
(* Ordering                                                                *)

IntCmp(a, b) == IF a < b THEN -1 ELSE IF a > b THEN 1 ELSE 0

\* a variant that orders specificities by the number of simple parts
SpecificityCmp_by_total(a, b) == IntCmp(a[1] + a[2] + a[3], b[1] + b[2] + b[3])

\* Ord for Specificity = (usize, usize, usize): lexicographic
SpecificityCmp(a, b) ==
    IF a[1] # b[1] THEN IntCmp(a[1], b[1])
    ELSE IF a[2] # b[2] THEN IntCmp(a[2], b[2])
    ELSE IntCmp(a[3], b[3])

\* a variant that compares the specificity before the (origin, important) rank
CascadeKeyCmp_specificity_first(a, b) ==
    IF a[2] # b[2] THEN IntCmp(a[2][1] * 100 + a[2][2] * 10 + a[2][3],
                               b[2][1] * 100 + b[2][2] * 10 + b[2][3])
    ELSE IF a[1] # b[1] THEN IntCmp(a[1], b[1])
    ELSE IntCmp(a[3], b[3])

\* Ord for CascadeKey = (u8, Specificity, usize): lexicographic
CascadeKeyCmp(a, b) ==
    IF a[1] # b[1] THEN IntCmp(a[1], b[1])
    ELSE IF a[2] # b[2] THEN SpecificityCmp(a[2], b[2])
    ELSE IntCmp(a[3], b[3])

\* where a stable sort puts the element at index i: behind the elements that
\* compare less and the equal ones that stood before it
SortRank(s, i, Cmp(_, _)) ==
    Cardinality({ j \in 1..Len(s) :
        Bind(Cmp(s[j], s[i]), LAMBDA c : c < 0 \/ (c = 0 /\ j < i)) })

\* slice::sort_by, a stable sort
sort_by(s, Cmp(_, _)) ==
    [r \in 1..Len(s) |-> s[CHOOSE i \in 1..Len(s) : SortRank(s, i, Cmp) = r - 1]]

-----------------------------------------------------------------------------
(* Selectors (css.rs SimpleSelector, Selector::specificity, parse_selectors) *)

SimpleSelector(tag, id, class) == [tag_name |-> tag, id |-> id, class |-> class]

specificity(sel) == <<Len(sel.id), Len(sel.class), Len(sel.tag_name)>>

RECURSIVE simple_selector_loop(_, _, _)
simple_selector_loop(inp, p, sel) ==
    IF eof(inp, p) THEN Ok(p, sel)
    ELSE IF next_char(inp, p) = "#"
    THEN Bind(parse_identifier(inp, p + 1), LAMBDA id :
            simple_selector_loop(inp, id.pos, [sel EXCEPT !.id = Some(id.val)]))
    ELSE IF next_char(inp, p) = "."
    THEN Bind(parse_identifier(inp, p + 1), LAMBDA id :
            simple_selector_loop(inp, id.pos, [sel EXCEPT !.class = Append(@, id.val)]))
    ELSE IF next_char(inp, p) = "*"
    THEN simple_selector_loop(inp, p + 1, sel)
    ELSE IF next_char(inp, p) \in valid_identifier_char
    THEN Bind(parse_identifier(inp, p), LAMBDA id :
            simple_selector_loop(inp, id.pos, [sel EXCEPT !.tag_name = Some(id.val)]))
    ELSE Ok(p, sel)

parse_simple_selector(inp, p) ==
    simple_selector_loop(inp, p, SimpleSelector(None, None, <<>>))

\* the comparator of parse_selectors: b.specificity().cmp(&a.specificity())
SelectorCmp(a, b) == SpecificityCmp(specificity(b), specificity(a))

\* the loop of parse_selectors
RECURSIVE selectors_loop(_, _, _)
selectors_loop(inp, p, acc) ==
    Bind(parse_simple_selector(inp, p), LAMBDA s :
        Bind(consume_whitespace(inp, s.pos), LAMBDA q :
            IF eof(inp, q) THEN Panic
            ELSE IF next_char(inp, q) = ","
            THEN selectors_loop(inp, consume_whitespace(inp, q + 1), Append(acc, s.val))
            ELSE IF next_char(inp, q) = "{" THEN Ok(q, Append(acc, s.val))
            ELSE Panic))

\* a variant that leaves the selectors in the order they were written
parse_selectors_unsorted(inp, p) ==
    Then(selectors_loop(inp, p, <<>>), LAMBDA r : Ok(r.pos, r.val))

parse_selectors(inp, p) ==
    Then(selectors_loop(inp, p, <<>>), LAMBDA r :
        Ok(r.pos, sort_by(r.val, SelectorCmp)))

-----------------------------------------------------------------------------
(* Declarations, rules, stylesheets (css.rs)                               *)

Declaration(name, value, important) ==
    [name |-> name, value |-> value, important |-> important]

Rule(selectors, declarations) ==
    [selectors |-> selectors, declarations |-> declarations]

Stylesheet(rules, origin) == [rules |-> rules, origin |-> origin]

ImportantLiteral == "!important"

\* css.rs:248-255: the position after an optional !important and the flag
parse_important(inp, q) ==
    IF starts_with(inp, q, ImportantLiteral)
    THEN Ok(consume_whitespace(inp, q + Len(ImportantLiteral)), TRUE)
    ELSE Ok(q, FALSE)

parse_declaration(inp, p) ==
    Bind(parse_identifier(inp, p), LAMBDA name :
        Then(expect_char(inp, consume_whitespace(inp, name.pos), ":"), LAMBDA c :
            Then(parse_value(inp, consume_whitespace(inp, c.pos)), LAMBDA v :
                Bind(parse_important(inp, consume_whitespace(inp, v.pos)), LAMBDA i :
                    Then(expect_char(inp, i.pos, ";"), LAMBDA semi :
                        Ok(semi.pos, Declaration(name.val, v.val, i.val)))))))

\* the loop of parse_declarations
RECURSIVE declarations_loop(_, _, _)
declarations_loop(inp, p, acc) ==
    Bind(consume_whitespace(inp, p), LAMBDA q :
        IF eof(inp, q) THEN Panic
        ELSE IF next_char(inp, q) = "}" THEN Ok(q + 1, acc)
        ELSE Then(parse_declaration(inp, q), LAMBDA d :
                declarations_loop(inp, d.pos, Append(acc, d.val))))

parse_declarations(inp, p) ==
    Then(expect_char(inp, p, "{"), LAMBDA b : declarations_loop(inp, b.pos, <<>>))

parse_rule(inp, p) ==
    Then(parse_selectors(inp, p), LAMBDA s :
        Then(parse_declarations(inp, s.pos), LAMBDA d :
            Ok(d.pos, Rule(s.val, d.val))))

RECURSIVE parse_rules(_, _, _)
parse_rules(inp, p, acc) ==
    Bind(consume_whitespace(inp, p), LAMBDA q :
        IF eof(inp, q) THEN Ok(q, acc)
        ELSE Then(parse_rule(inp, q), LAMBDA r :
                parse_rules(inp, r.pos, Append(acc, r.val))))

\* css::parse: Panic, or Ok with the Stylesheet as val
parse(src, origin) ==
    Then(parse_rules(src, 1, <<>>), LAMBDA r : Ok(r.pos, Stylesheet(r.val, origin)))

-----
(* DOM (dom.rs)                                                            *)

\* ElementData: attrs is a function from the attribute names present to texts
ElementData(tag, attrs) == [tag_name |-> tag, attrs |-> attrs]

\* HashMap::get
Get(map, key) == IF key \in DOMAIN map THEN Some(map[key]) ELSE None

\* ElementData::id
id(elem) == Get(elem.attrs, "id")

\* str::split(' '): the pieces between the spaces, empty pieces included
RECURSIVE split(_, _)
split(s, sep) ==
    IF \A i \in 1..Len(s) : SubSeq(s, i, i) # sep THEN {s}
    ELSE Bind(CHOOSE k \in 1..Len(s) :
                  /\ SubSeq(s, k, k) = sep
                  /\ \A j \in 1..(k - 1) : SubSeq(s, j, j) # sep,
              LAMBDA i : {SubSeq(s, 1, i - 1)} \cup split(SubSeq(s, i + 1, Len(s)), sep))

\* ElementData::classes
classes(elem) ==
    IF "class" \in DOMAIN elem.attrs THEN split(elem.attrs["class"], " ") ELSE {}

-----------------------------------------------------------------------------
(* Selector matching (style.rs)                                            *)

\* a variant that does not look at the id
matches_simple_selector_without_id(elem, selector) ==
    IF \E i \in 1..Len(selector.tag_name) : elem.tag_name # selector.tag_name[i]
    THEN FALSE
    ELSE IF \E i \in 1..Len(selector.class) : selector.class[i] \notin classes(elem)
    THEN FALSE
    ELSE TRUE

matches_simple_selector(elem, selector) ==
    IF \E i \in 1..Len(selector.tag_name) : elem.tag_name # selector.tag_name[i]
    THEN FALSE
    ELSE IF \E i \in 1..Len(selector.id) : id(elem) # Some(selector.id[i])
    THEN FALSE
    ELSE IF \E i \in 1..Len(selector.class) : selector.class[i] \notin classes(elem)
    THEN FALSE
    ELSE TRUE

matches(elem, selector) == matches_simple_selector(elem, selector)

\* match_rule: None, or Some of the specificity of the first selector that matches
match_rule(elem, rule) ==
    Bind({ i \in 1..Len(rule.selectors) : matches(elem, rule.selectors[i]) }, LAMBDA hits :
        IF hits = {} THEN None
        ELSE Some(specificity(rule.selectors[CHOOSE i \in hits : \A j \in hits : i <= j])))

-----------------------------------------------------------------------------
(* The cascade (style.rs specified_values)                                 *)

RECURSIVE Flatten(_)
Flatten(ss) == IF ss = <<>> THEN <<>> ELSE Head(ss) \o Flatten(Tail(ss))

\* the match at style.rs:149-156
origin_importance(origin, important) ==
    CASE origin = "UserAgent" /\ ~important -> 0
      [] origin = "User"      /\ ~important -> 1
      [] origin = "Author"    /\ ~important -> 2
      [] origin = "UserAgent" /\ important  -> 3
      [] origin = "User"      /\ important  -> 4
      [] origin = "Author"    /\ important  -> 5

CascadedDeclaration(declaration, key) ==
    [declaration |-> declaration, cascade_key |-> key]

\* the candidates of one rule; rule_index counts from 0 (enumerate)
rule_candidates(elem, origin, rule, rule_index) ==
    Bind(match_rule(elem, rule), LAMBDA m :
        IF m = None THEN <<>>
        ELSE [d \in 1..Len(rule.declarations) |->
                CascadedDeclaration(rule.declarations[d],
                    <<origin_importance(origin, rule.declarations[d].important),
                      m[1], rule_index>>)])

\* the loop at style.rs:145-165
stylesheet_candidates(elem, stylesheets) ==
    Flatten([s \in 1..Len(stylesheets) |->
        Flatten([r \in 1..Len(stylesheets[s].rules) |->
            rule_candidates(elem, stylesheets[s].origin, stylesheets[s].rules[r], r - 1)])])

StyleWrapper(style) == "dummy { " \o style \o " }"

\* parse_style_attribute: None when css::parse panics (catch_unwind), else the
\* declarations of the first rule
parse_style_attribute(style) ==
    Bind(parse(StyleWrapper(style), "Author"), LAMBDA r :
        IF r.ok /\ Len(r.val.rules) > 0 THEN Some(r.val.rules[1].declarations) ELSE None)

\* the longest prefix of `style` that parses as a declaration block
LongestParsedPrefix(style) ==
    CHOOSE k \in 0..Len(style) :
        /\ parse_style_attribute(SubSeq(style, 1, k)) # None
        /\ \A j \in (k + 1)..Len(style) : parse_style_attribute(SubSeq(style, 1, j)) = None

\* a variant that keeps the declarations that precede the malformed part
style_declarations_partial(elem) ==
    IF "style" \in DOMAIN elem.attrs
    THEN parse_style_attribute(
            SubSeq(elem.attrs["style"], 1, LongestParsedPrefix(elem.attrs["style"])))[1]
    ELSE <<>>

\* style.rs:167-174
style_declarations(elem) ==
    IF "style" \in DOMAIN elem.attrs
    THEN Bind(parse_style_attribute(elem.attrs["style"]), LAMBDA parsed :
            IF parsed # None THEN parsed[1] ELSE <<>>)
    ELSE <<>>

InlineRuleIndex == 999999

InlineSpecificity == <<1, 0, 0>>

inline_importance(important) == IF important THEN 5 ELSE 4

\* style.rs:176-183
inline_candidates(elem) ==
    Bind(style_declarations(elem), LAMBDA ds :
        [d \in 1..Len(ds) |->
            CascadedDeclaration(ds[d],
                <<inline_importance(ds[d].important), InlineSpecificity, InlineRuleIndex>>)])

CandidateCmp(a, b) == CascadeKeyCmp(a.cascade_key, b.cascade_key)

\* style.rs:141-186: the candidates, sorted by cascade order
cascaded_declarations(elem, stylesheets) ==
    sort_by(stylesheet_candidates(elem, stylesheets) \o inline_candidates(elem), CandidateCmp)

\* a variant in which the first candidate of a property is kept
fold_declarations_first_wins(cs) ==
    [name \in { cs[i].declaration.name : i \in 1..Len(cs) } |->
        cs[CHOOSE i \in 1..Len(cs) :
                /\ cs[i].declaration.name = name
                /\ \A j \in 1..(i - 1) : cs[j].declaration.name # name
          ].declaration.value]

\* style.rs:188-195: later candidates overwrite earlier ones
fold_declarations(cs) ==
    [name \in { cs[i].declaration.name : i \in 1..Len(cs) } |->
        cs[CHOOSE i \in 1..Len(cs) :
                /\ cs[i].declaration.name = name
                /\ \A j \in (i + 1)..Len(cs) : cs[j].declaration.name # name
          ].declaration.value]

specified_values(elem, stylesheets) ==
    fold_declarations(cascaded_declarations(elem, stylesheets))

-----------------------------------------------------------------------------
(* Inheritance and initial values (style.rs)                               *)

INHERITED_PROPERTIES ==
    {"color", "font-family", "font-size", "font-style", "font-weight",
     "line-height", "text-align", "text-decoration", "text-indent",
     "visibility", "white-space", "word-spacing", "letter-spacing"}

is_inherited_property(property) == property \in INHERITED_PROPERTIES

get_initial_value(property) ==
    CASE property = "display" -> Keyword("inline")
      [] property = "color" -> ColorValue(0, 0, 0, 255)
      [] property = "font-size" -> Length(16, 0)
      [] property = "font-weight" -> Keyword("normal")
      [] property = "font-style" -> Keyword("normal")
      [] property = "text-align" -> Keyword("left")
      [] property = "text-decoration" -> Keyword("none")
      [] property = "visibility" -> Keyword("visible")
      [] property = "white-space" -> Keyword("normal")
      [] OTHER -> Keyword("initial")

\* a variant that ignores an explicit `inherit`
inherits_unset_only(values, property) ==
    is_inherited_property(property) /\ property \notin DOMAIN values

\* a variant that copies every property the child left unset
inherits_every_unset(values, property) ==
    \/ Get(values, property) = Some(Inherit)
    \/ property \notin DOMAIN values

\* does apply_inheritance copy the parent's `property` into `values`?
inherits(values, property) ==
    \/ Get(values, property) = Some(Inherit)
    \/ is_inherited_property(property) /\ property \notin DOMAIN values

\* apply_inheritance; parent_values is an Option<PropertyMap>
apply_inheritance(values, parent_values) ==
    IF parent_values = None THEN values
    ELSE Bind({ property \in DOMAIN parent_values[1] : inherits(values, property) },
              LAMBDA copied :
                 [property \in DOMAIN values \cup copied |->
                     IF property \in copied THEN parent_values[1][property]
                     ELSE values[property]])

important_properties == {"display", "color", "font-size"}

\* a variant that forces no initial value
apply_initial_values_none(values) == values

apply_initial_values(values) ==
    [property \in DOMAIN values \cup important_properties |->
        IF property \in DOMAIN values THEN values[property]
        ELSE get_initial_value(property)]

EmptyMap == <<>>

\* a variant that treats text nodes as comments
node_values_text_as_comment(node, stylesheets, parent_values) ==
    CASE node.node_type = "Element" ->
            apply_initial_values(
                apply_inheritance(specified_values(node.elem, stylesheets), parent_values))
      [] node.node_type = "Text" -> EmptyMap
      [] node.node_type = "Comment" -> EmptyMap

\* the match of style_tree_with_parent, style.rs:90-103
node_values(node, stylesheets, parent_values) ==
    CASE node.node_type = "Element" ->
            apply_initial_values(
                apply_inheritance(specified_values(node.elem, stylesheets), parent_values))
      [] node.node_type = "Text" -> apply_inheritance(EmptyMap, parent_values)
      [] node.node_type = "Comment" -> EmptyMap

\* StyledNode::value
value(values, name) == Get(values, name)

\* StyledNode::display
display(values) ==
    Bind(value(values, "display"), LAMBDA v :
        IF v # None /\ v[1].kind = "Keyword"
        THEN IF v[1].s = "block" THEN "Block"
             ELSE IF v[1].s = "none" THEN "None"
             ELSE "Inline"
        ELSE "Inline")

-----------------------------------------------------------------------------
(* The document tree and the run (dom.rs constructors, main.rs,            *)
(* style.rs style_tree / style_tree_with_parent)                           *)

\* dom::elem, dom::text, dom::comment; parent is the index of the node that holds
\* this one in its children, 0 for the root
Element(tag, attrs, parent) ==
    [node_type |-> "Element", elem |-> ElementData(tag, attrs), parent |-> parent]

Text(parent) == [node_type |-> "Text", parent |-> parent]

Comment(parent) == [node_type |-> "Comment", parent |-> parent]

NoAttrs == <<>>

Attr(name, text) == [a \in {name} |-> text]

\* a.k.a. HashMap::insert on a copy
With(map, key, val) ==
    [k \in DOMAIN map \cup {key} |-> IF k = key THEN val ELSE map[k]]

RECURSIVE SeqOfSet(_)
SeqOfSet(S) ==
    IF S = {} THEN <<>>
    ELSE Bind(CHOOSE x \in S : \A y \in S : x <= y,
              LAMBDA m : <<m>> \o SeqOfSet(S \ {m}))

\* node.children, in document order
children(d, n) == SeqOfSet({ i \in 1..Len(d) : d[i].parent = n })

\* css::parse of the next text of the queue (main.rs:40-41); a panic ends the run
ParseStylesheet ==
    /\ pc = "parse"
    /\ source # <<>>
    /\ \E r \in {parse(Head(source).text, Head(source).origin)} :
           IF r.ok
           THEN /\ sheets' = Append(sheets, r.val)
                /\ source' = Tail(source)
                /\ pc' = "parse"
           ELSE /\ pc' = "panicked"
                /\ UNCHANGED <<sheets, source>>
    /\ UNCHANGED <<doc, stack, cascaded, styled>>

\* style_tree: the call style_tree_with_parent(root, stylesheets, None)
StyleTree ==
    /\ pc = "parse"
    /\ source = <<>>
    /\ pc' = "style"
    /\ stack' = <<1>>
    /\ UNCHANGED <<source, sheets, doc, cascaded, styled>>

\* one call of style_tree_with_parent: the node's values, then its children
\* the parent_values argument of the call for node n
parent_values_of(d, done, n) ==
    IF d[n].parent = 0 THEN None ELSE Some(done[d[n].parent])

StyleNode ==
    /\ pc = "style"
    /\ stack # <<>>
    /\ \E n \in {Head(stack)} :
        /\ styled' = With(styled, n,
                          node_values(doc[n], sheets, parent_values_of(doc, styled, n)))
        /\ cascaded' = IF doc[n].node_type = "Element"
                       THEN With(cascaded, n, specified_values(doc[n].elem, sheets))
                       ELSE cascaded
        /\ stack' = children(doc, n) \o Tail(stack)
        /\ pc' = IF children(doc, n) \o Tail(stack) = <<>> THEN "done" ELSE "style"
    /\ UNCHANGED <<source, sheets, doc>>

Next == ParseStylesheet \/ StyleTree \/ StyleNode

StartWith(queue, d) ==
    /\ source = queue
    /\ doc = d
    /\ sheets = <<>>
    /\ stack = <<>>
    /\ cascaded = <<>>
    /\ styled = <<>>
    /\ pc = "parse"

SheetSource(text, origin) == [text |-> text, origin |-> origin]

Origins == {"UserAgent", "User", "Author"}

-----------------------------------------------------------------------------
(* Spec: main.rs on a document tree of at most MaxNodes nodes and one      *)
(* Author stylesheet                                                       *)

MaxNodes == 3

BadStyle == "color: green; display block"

GoodStyle == "display: block; color: green;"

ElementKinds ==
    { ElementData("p", Attr("class", "c")),
      ElementData("p", With(Attr("class", "c"), "style", BadStyle)),
      ElementData("span", NoAttrs),
      ElementData("span", Attr("style", GoodStyle)) }

RootKinds ==
    { ElementData("div", NoAttrs),
      ElementData("p", Attr("class", "c")) }

ElementsOf(d) == { i \in 1..Len(d) : d[i].node_type = "Element" }

\* the trees with one node more than those of D: a new last child under an element
Grow(D) ==
    { Append(d, Element(k.tag_name, k.attrs, par)) :
        d \in D, k \in ElementKinds, par \in 1..MaxNodes }
    \cup { Append(d, Text(par)) : d \in D, par \in 1..MaxNodes }
    \cup { Append(d, Comment(par)) : d \in D, par \in 1..MaxNodes }

WellFormed(d) ==
    \A i \in 2..Len(d) : d[i].parent < i /\ d[i].parent \in ElementsOf(d)

RECURSIVE DocsOfSize(_)
DocsOfSize(k) ==
    IF k = 1 THEN { <<Element(r.tag_name, r.attrs, 0)>> : r \in RootKinds }
    ELSE { d \in Grow(DocsOfSize(k - 1)) : WellFormed(d) }

Docs == UNION { DocsOfSize(k) : k \in 1..MaxNodes }

TreeSources ==
    { "div { color: blue; display: block; margin: 4px; }",
      "div { color: blue; font-weight: bold; } p { color: inherit; } .c { color: red; } span { color: red; } span { color: inherit; }",
      ".c { color: red; } div { color: blue; } p { color: inherit; }",
      "div { color: blue; font-weight: bold; } p { color: red; } p.c { color: inherit; display: inherit; }",
      "div { display: none; color: #00ff00; } span { font-size: 12px; } span { font-size: 14px; }",
      "",
      "div { color: blue " }

Init ==
    \E text \in TreeSources, d \in Docs :
        StartWith(<<SheetSource(text, "Author")>>, d)

Spec == Init /\ [][Next]_vars

-----------------------------------------------------------------------------
(* SpecCascade: style_tree on one element and stylesheets of every origin, *)
(* with at most MaxRules declaring rules in all                            *)

MaxRules == 2

CascadeElem == ElementData("div", With(Attr("id", "main"), "class", "c d"))

\* the second one matches the element through its less specific selector
CascadeSelectors == {"div", "p#x, div.c.d", "#main"}

\* the k-th rule of a queue declares the color v<k>
ValueNames == [k \in 1..(Len(DecimalDigits) - 1) |-> "v" \o SubSeq(DecimalDigits, k + 1, k + 1)]

RuleText(sel, val, important) ==
    sel \o " { color: " \o val \o (IF important THEN " !important" ELSE "") \o "; } "

\* a rule that matches no element of the models and declares nothing
PadText == "p { } "

RECURSIVE RulesText(_, _, _)
RulesText(rules, first, names) ==
    IF rules = <<>> THEN ""
    ELSE RuleText(Head(rules)[1], names[first], Head(rules)[2])
            \o RulesText(Tail(rules), first + 1, names)

\* the stylesheets of k rules: an origin and the rules
SheetPlans(k) ==
    { [origin |-> o, rules |-> rs] :
        o \in Origins, rs \in [1..k -> CascadeSelectors \X BOOLEAN] }

\* the queues of stylesheets with at most n rules in all
RECURSIVE Plans(_)
Plans(n) ==
    {<<>>} \cup UNION { { <<sh>> \o rest : sh \in SheetPlans(k), rest \in Plans(n - k) } :
                         k \in 1..n }

\* the stylesheet that may get a pad rule in front, which shifts its rule
\* indices by one: none (0), the first or the last
PadPlaces(plan) == {0} \cup ({1, Len(plan)} \cap DOMAIN plan)

RECURSIVE PlanSources(_, _, _)
PlanSources(plan, first, pad) ==
    IF plan = <<>> THEN <<>>
    ELSE <<SheetSource((IF pad = 1 THEN PadText ELSE "")
                            \o RulesText(Head(plan).rules, first, ValueNames),
                       Head(plan).origin)>>
            \o PlanSources(Tail(plan), first + Len(Head(plan).rules), pad - 1)

ExampleSource == "p { color: black; } .highlight { color: green; }"

ExampleElem == ElementData("p", Attr("class", "highlight"))

InitCascade ==
    \/ \E plan \in Plans(MaxRules) : \E pad \in PadPlaces(plan) :
            StartWith(PlanSources(plan, 1, pad), <<Element(CascadeElem.tag_name, CascadeElem.attrs, 0)>>)
    \/ \E o \in Origins :
            StartWith(<<SheetSource(ExampleSource, o)>>,
                      <<Element(ExampleElem.tag_name, ExampleElem.attrs, 0)>>)

SpecCascade == InitCascade /\ [][Next]_vars

-----------------------------------------------------------------------------
(* SpecInline: style_tree on one element with a style attribute and one    *)
(* Author stylesheet of at most MaxInlineRules rules                       *)

MaxInlineRules == 2

InlineStyles ==
    { "color: red !important",
      "color: red !important;",
      "color: red;",
      "color: red",
      "display: block; color: red;" }

InlineSelectors == {"div", "#main", "#main.c", "div#main"}

InlineValues == <<"blue", "green", "navy", "teal">>

InlineSheets ==
    UNION { { RulesText(rs, 1, InlineValues) : rs \in [1..k -> InlineSelectors \X BOOLEAN] } :
            k \in 1..MaxInlineRules }

InitInline ==
    \E text \in InlineSheets, style \in InlineStyles :
        StartWith(<<SheetSource(text, "Author")>>,
                  <<Element(CascadeElem.tag_name,
                            With(CascadeElem.attrs, "style", style), 0)>>)

SpecInline == InitInline /\ [][Next]_vars

-----------------------------------------------------------------------------
(* SpecMatch: style_tree on one element and one Author rule                *)

MatchTags == {"div", "p"}

MatchIds == {None, Some("main"), Some("mainx"), Some("")}

MatchClasses ==
    {None, Some("container"), Some("big container"), Some("containers"),
     Some("container  big"), Some("")}

OptAttr(name, opt) == IF opt = None THEN NoAttrs ELSE Attr(name, opt[1])

Merge(f, g) == [k \in DOMAIN f \cup DOMAIN g |-> IF k \in DOMAIN f THEN f[k] ELSE g[k]]

MatchElems ==
    { ElementData(t, Merge(OptAttr("id", i), OptAttr("class", c))) :
        t \in MatchTags, i \in MatchIds, c \in MatchClasses }

MatchSelectors ==
    {"div.container#main", "#main.container", "div", ".container", "#main", "*",
     ".big.container", "p#main", ".", "#"}

InitMatch ==
    \E sel \in MatchSelectors, e \in MatchElems :
        StartWith(<<SheetSource(RuleText(sel, "red", FALSE), "Author")>>,
                  <<Element(e.tag_name, e.attrs, 0)>>)

SpecMatch == InitMatch /\ [][Next]_vars

-----------------------------------------------------------------------------
(* SpecValue: style_tree on one element and one Author rule that declares  *)
(* a length of at most MaxDigits digits before the point                   *)

MaxDigits == 2

ValueDigits == {"0", "1", "8", "9"}

RECURSIVE DigitStrings(_)
DigitStrings(k) ==
    IF k = 0 THEN {""} ELSE { d \o w : d \in ValueDigits, w \in DigitStrings(k - 1) }

Wholes == UNION { DigitStrings(k) : k \in 1..MaxDigits }

\* the digits after the point; None stands for a number without a point
Fractions == {None, Some(""), Some("5"), Some("9"), Some("25")}

UnitTexts == {"px", "PX", "Px", "pX"}

LengthText(whole, frac, unit) ==
    whole \o (IF frac = None THEN "" ELSE "." \o frac[1]) \o unit

ValueSource(text) == "div { margin: " \o text \o "; }"

InitValue ==
    \E whole \in Wholes, frac \in Fractions, unit \in UnitTexts :
        StartWith(<<SheetSource(ValueSource(LengthText(whole, frac, unit)), "Author")>>,
                  <<Element("div", NoAttrs, 0)>>)

SpecValue == InitValue /\ [][Next]_vars

-----------------------------------------------------------------------------
(* SpecSelectors: style_tree on one element and one Author rule with a     *)
(* list of at most MaxSelectors selectors                                  *)

MaxSelectors == 2

SelectorTexts == <<"div", ".c", "#main", "div.c", "p", "*">>

SelectorLists == UNION { [1..k -> DOMAIN SelectorTexts] : k \in 1..MaxSelectors }

RECURSIVE SelectorListText(_)
SelectorListText(list) ==
    IF Len(list) = 1 THEN SelectorTexts[list[1]]
    ELSE SelectorTexts[Head(list)] \o ", " \o SelectorListText(Tail(list))

\* the keyword the rule declares: it spells the order the selectors are written in
RECURSIVE OrderName(_)
OrderName(list) ==
    IF list = <<>> THEN "s"
    ELSE OrderName(SubSeq(list, 1, Len(list) - 1))
            \o SubSeq(DecimalDigits, list[Len(list)] + 1, list[Len(list)] + 1)

SelectorElems ==
    { ElementData("div", With(Attr("id", "main"), "class", "c")),
      ElementData("div", Attr("class", "c")),
      ElementData("div", NoAttrs),
      ElementData("p", Attr("id", "main")) }

InitSelectors ==
    \E list \in SelectorLists, e \in SelectorElems :
        StartWith(<<SheetSource(RuleText(SelectorListText(list), OrderName(list), FALSE),
                                "Author")>>,
                  <<Element(e.tag_name, e.attrs, 0)>>)

SpecSelectors == InitSelectors /\ [][Next]_vars

-----------------------------------------------------------------------------
(* Properties of the cascade (SpecCascade, SpecInline)                     *)

\* the element of the one-element documents
TheElem == doc[1].elem

Resolved == 1 \in DOMAIN cascaded

LexGreater(a, b) ==
    \/ a[1] > b[1]
    \/ a[1] = b[1] /\ a[2] > b[2]
    \/ a[1] = b[1] /\ a[2] = b[2] /\ a[3] > b[3]

\* (id-count, class-count, tag-count) of a selector
Counts(sel) ==
    << IF sel.id = None THEN 0 ELSE 1,
       Len(sel.class),
       IF sel.tag_name = None THEN 0 ELSE 1 >>

\* the greatest specificity among the selectors of the rule that match
EffectiveSpecificity(elem, rule) ==
    LET hits == { Counts(rule.selectors[i]) :
                    i \in { j \in 1..Len(rule.selectors) : matches(elem, rule.selectors[j]) } }
    IN  CHOOSE h \in hits : \A g \in hits : ~LexGreater(g, h)

\* the declarations of `prop` in the rules that match the element, each with
\* the place, origin and effective specificity of its rule
SheetDecls(elem, prop) ==
    { [sheet |-> x[1], rule |-> x[2], decl |-> x[3],
       origin |-> sheets[x[1]].origin,
       important |-> sheets[x[1]].rules[x[2]].declarations[x[3]].important,
       value |-> sheets[x[1]].rules[x[2]].declarations[x[3]].value,
       specificity |-> EffectiveSpecificity(elem, sheets[x[1]].rules[x[2]])] :
      x \in { y \in UNION { UNION { { <<si, ri, di>> :
                                        di \in 1..Len(sheets[si].rules[ri].declarations) } :
                                    ri \in 1..Len(sheets[si].rules) } :
                            si \in 1..Len(sheets) } :
                /\ match_rule(elem, sheets[y[1]].rules[y[2]]) # None
                /\ sheets[y[1]].rules[y[2]].declarations[y[3]].name = prop } }

Of(ds, origin, important) ==
    { d \in ds : d.origin = origin /\ d.important = important }

Values(ds) == { d.value : d \in ds }

\* C1: with no inline style, a property declared by a matching UserAgent rule
\* and by a matching Author rule, both non-important, resolves to an Author
\* value when no declaration of it is important; when a UserAgent declaration is
\* !important and the Author ones (and every other origin's) are not, it resolves
\* to an important UserAgent value; whatever the specificities, the rule indices
\* and the order of the stylesheets.
C1_OriginRankDominates ==
    (Resolved /\ "style" \notin DOMAIN TheElem.attrs) =>
        LET ds == SheetDecls(TheElem, "color")
        IN  /\ (/\ Of(ds, "UserAgent", FALSE) # {}
                /\ Of(ds, "Author", FALSE) # {}
                /\ \A d \in ds : ~d.important)
               => cascaded[1]["color"] \in Values(Of(ds, "Author", FALSE))
            /\ (/\ Of(ds, "UserAgent", TRUE) # {}
                /\ Of(ds, "Author", FALSE) # {}
                /\ \A d \in ds : d.important => d.origin = "UserAgent")
               => cascaded[1]["color"] \in Values(Of(ds, "UserAgent", TRUE))

\* an important UserAgent declaration, of a less specific rule with a greater
\* rule index in a later stylesheet, wins over a normal Author declaration
C1_Witness ==
    /\ pc = "done"
    /\ LET ds == SheetDecls(TheElem, "color")
       IN  \E u, a \in ds :
            /\ ds = {u, a}
            /\ u.origin = "UserAgent" /\ u.important
            /\ a.origin = "Author" /\ ~a.important
            /\ LexGreater(a.specificity, u.specificity)
            /\ a.sheet < u.sheet
            /\ u.rule > a.rule
            /\ cascaded[1]["color"] = u.value

\* C2: of two matching rules of stylesheets of one origin that declare a
\* property with the same importance, the one of lexicographically smaller
\* effective specificity never gives the resolved value, and when no other rule
\* declares the property the more specific one does, in either order of the
\* rules; the stylesheet `p { color: black; } .highlight { color: green; }`
\* gives an element p of class highlight the color green.
C2_SpecificityDecides ==
    Resolved =>
        /\ LET ds == SheetDecls(TheElem, "color")
           IN  \A d1, d2 \in ds :
                (/\ d1.origin = d2.origin
                 /\ d1.important = d2.important
                 /\ LexGreater(d1.specificity, d2.specificity))
                => /\ (\A d \in ds \ {d2} : d.value # d2.value)
                        => cascaded[1]["color"] # d2.value
                   /\ ds = {d1, d2} => cascaded[1]["color"] = d1.value
        /\ (/\ TheElem = ExampleElem
            /\ \E o \in Origins : sheets = <<parse(ExampleSource, o).val>>)
           => cascaded[1]["color"] = Keyword("green")

\* an id rule standing before a rule of two classes and a tag wins
C2_Witness ==
    /\ pc = "done"
    /\ LET ds == SheetDecls(TheElem, "color")
       IN  \E d1, d2 \in ds :
            /\ ds = {d1, d2}
            /\ d1.origin = d2.origin /\ d1.important = d2.important
            /\ d1.specificity = <<1, 0, 0>> /\ d2.specificity = <<0, 2, 1>>
            /\ d1.sheet = d2.sheet /\ d1.rule < d2.rule
            /\ cascaded[1]["color"] = d1.value

\* the successfully parsed inline declarations of a property
InlineDecls(elem, prop) ==
    LET ds == style_declarations(elem)
    IN  { ds[i] : i \in { j \in 1..Len(ds) : ds[j].name = prop } }

\* C3: a successfully parsed inline declaration of a property beats every
\* matching Author declaration of the same property with the same importance
\* flag, whatever the selector of the Author rule: when every declaration of
\* color has one importance flag, the resolved color is an inline one.
C3_InlineBeatsAuthor ==
    Resolved =>
        \A b \in BOOLEAN :
            LET ds == SheetDecls(TheElem, "color")
                inl == InlineDecls(TheElem, "color")
            IN  (/\ inl # {}
                 /\ ds # {}
                 /\ \A d \in ds : d.origin = "Author" /\ d.important = b
                 /\ \A d \in inl : d.important = b)
                => cascaded[1]["color"] \in Values(inl)

\* C4: an element whose style attribute is exactly `color: red !important`,
\* matched by an Author rule declaring `color: blue;`, all matching declarations
\* of color being non-important, resolves color to red.
C4_InlineImportantWithoutSemicolon ==
    (/\ Resolved
     /\ Get(TheElem.attrs, "style") = Some("color: red !important")
     /\ LET ds == SheetDecls(TheElem, "color")
        IN  /\ \E d \in ds : d.origin = "Author" /\ d.value = Keyword("blue")
            /\ \A d \in ds : ~d.important)
    => cascaded[1]["color"] = Keyword("red")

-----------------------------------------------------------------------------
(* Properties of selector matching (SpecMatch)                             *)

IsSpace(s, i) == SubSeq(s, i, i) = " "

\* `c` stands in `text` between two spaces or ends of the text, and holds no space
MemberOfSpaceSeparated(c, text) ==
    /\ \A i \in 1..Len(c) : ~IsSpace(c, i)
    /\ \E i \in 1..(Len(text) + 1) :
        /\ i + Len(c) - 1 <= Len(text)
        /\ SubSeq(text, i, i + Len(c) - 1) = c
        /\ i = 1 \/ IsSpace(text, i - 1)
        /\ i + Len(c) - 1 = Len(text) \/ IsSpace(text, i + Len(c))

HasClass(elem, c) ==
    "class" \in DOMAIN elem.attrs /\ MemberOfSpaceSeparated(c, elem.attrs["class"])

ConstraintsHold(elem, sel) ==
    /\ sel.tag_name # None => sel.tag_name[1] = elem.tag_name
    /\ sel.id # None => ("id" \in DOMAIN elem.attrs /\ elem.attrs["id"] = sel.id[1])
    /\ \A i \in 1..Len(sel.class) : HasClass(elem, sel.class[i])

ParsedSelectors ==
    UNION { UNION { { sheets[s].rules[r].selectors[i] :
                        i \in 1..Len(sheets[s].rules[r].selectors) } :
                    r \in 1..Len(sheets[s].rules) } :
            s \in 1..Len(sheets) }

DivContainerMain == SimpleSelector(Some("div"), Some("main"), <<"container">>)

\* C10: matches_simple_selector holds of an element exactly when the selector's
\* tag, if any, is the element's tag name, its id, if any, is the element's id
\* attribute, and each of its classes is one of the space separated pieces of
\* the element's class attribute; a rule applies to the element exactly then; and
\* div.container#main matches exactly the elements of tag div, id main and a
\* class set that holds container.
C10_MatchesExactly ==
    /\ \A sel \in ParsedSelectors :
        /\ matches_simple_selector(TheElem, sel) <=> ConstraintsHold(TheElem, sel)
        /\ sel = DivContainerMain =>
            (matches_simple_selector(TheElem, sel) <=>
                /\ TheElem.tag_name = "div"
                /\ Get(TheElem.attrs, "id") = Some("main")
                /\ HasClass(TheElem, "container"))
    /\ Resolved =>
        ("color" \in DOMAIN cascaded[1] <=>
            \E sel \in ParsedSelectors : ConstraintsHold(TheElem, sel))

\* div.container#main applied to a div of id main with an extra class
C10_Witness ==
    /\ pc = "done"
    /\ DivContainerMain \in ParsedSelectors
    /\ TheElem = ElementData("div", With(Attr("id", "main"), "class", "big container"))
    /\ cascaded[1] = [n \in {"color"} |-> Keyword("red")]

-----------------------------------------------------------------------------
(* Properties of the style tree (Spec)                                     *)

StyledElements == { n \in DOMAIN styled : doc[n].node_type = "Element" }

\* the inheritable properties, as the specification lists them
FixedInheritableSet ==
    {"color", "font-family", "font-size", "font-style", "font-weight",
     "line-height", "text-align", "text-decoration", "text-indent",
     "visibility", "white-space", "word-spacing", "letter-spacing"}

\* every candidate declaration of an element, in the order they are collected
CandidatesOf(elem) == stylesheet_candidates(elem, sheets) \o inline_candidates(elem)

CandidateSet(elem) ==
    LET cs == CandidatesOf(elem) IN { cs[i] : i \in 1..Len(cs) }

CandidatesFor(elem, prop) == { c \in CandidateSet(elem) : c.declaration.name = prop }

\* per styled element, the names of the properties it has a candidate for
DeclaredProps ==
    [n \in StyledElements |-> { c.declaration.name : c \in CandidateSet(doc[n].elem) }]

PropsInPlay == UNION { DOMAIN styled[m] : m \in DOMAIN styled }

\* an inherit declaration of color and a concrete one of the same origin and
\* importance from a rule of higher specificity
InheritUnderMoreSpecific(ci, cj) ==
    /\ ci.declaration.value = Inherit
    /\ cj.declaration.value # Inherit
    /\ ci.cascade_key[1] = cj.cascade_key[1]
    /\ SpecificityCmp(cj.cascade_key[2], ci.cascade_key[2]) > 0

\* C5 as stated: an explicit `color: inherit` on a child gives the child its
\* parent's resolved color even when a more specific rule of the same origin and
\* importance declares a concrete color for the same child.
C5_InheritOverridesMoreSpecific ==
    \A n \in StyledElements :
        (/\ doc[n].parent # 0
         /\ \E ci, cj \in CandidatesFor(doc[n].elem, "color") :
                InheritUnderMoreSpecific(ci, cj))
        => styled[n]["color"] = styled[doc[n].parent]["color"]

\* C5 as amended: a child element whose cascade yields `inherit` for color gets
\* its parent's resolved color; when a more specific rule of the same origin and
\* importance declares a concrete color and has the greatest cascade key, the
\* child resolves color to that concrete value, not to the parent's.
C5_InheritFollowsCascade ==
    \A n \in StyledElements :
        doc[n].parent # 0 =>
            /\ (Get(cascaded[n], "color") = Some(Inherit)
                /\ "color" \in DOMAIN styled[doc[n].parent])
               => styled[n]["color"] = styled[doc[n].parent]["color"]
            /\ LET colors == CandidatesFor(doc[n].elem, "color")
               IN  \A ci, cj \in colors :
                    (/\ InheritUnderMoreSpecific(ci, cj)
                     /\ \A c \in colors \ {cj} :
                            CascadeKeyCmp(c.cascade_key, cj.cascade_key) < 0)
                    => styled[n]["color"] = cj.declaration.value

\* a child whose inherit declaration lost to a more specific concrete color, and
\* whose parent resolved another color
C5_Witness ==
    \E n \in StyledElements :
        /\ doc[n].parent # 0
        /\ \E ci, cj \in CandidatesFor(doc[n].elem, "color") :
                /\ InheritUnderMoreSpecific(ci, cj)
                /\ styled[n]["color"] = cj.declaration.value
        /\ styled[n]["color"] # styled[doc[n].parent]["color"]
        /\ \E m \in StyledElements :
                /\ doc[m].parent # 0
                /\ Get(cascaded[m], "color") = Some(Inherit)
                /\ Cardinality(CandidatesFor(doc[m].elem, "color")) > 1
                /\ styled[m]["color"] = Keyword("blue")

\* a is a proper ancestor of n and every node from n up to a's child is an
\* element with no candidate declaration for prop
RECURSIVE UndeclaredChain(_, _, _, _)
UndeclaredChain(declared, a, n, prop) ==
    /\ doc[n].parent # 0
    /\ doc[n].node_type = "Element"
    /\ prop \notin declared[n]
    /\ \/ doc[n].parent = a
       \/ UndeclaredChain(declared, a, doc[n].parent, prop)

\* C6: a descendant reached from an ancestor element through elements that have
\* no candidate declaration for an inheritable property resolves it to the
\* ancestor's value; a property outside the inheritable set is never copied
\* from the parent to a child that did not declare it.
C6_InheritedThroughChain ==
    LET declared == DeclaredProps
    IN  /\ \A a, n \in StyledElements :
            \A prop \in DOMAIN styled[a] \cap FixedInheritableSet :
                UndeclaredChain(declared, a, n, prop)
                => (prop \in DOMAIN styled[n] /\ styled[n][prop] = styled[a][prop])
        /\ \A n \in StyledElements : \A prop \in PropsInPlay \ FixedInheritableSet :
            (doc[n].parent # 0 /\ prop \notin declared[n])
            => IF prop = "display"
               THEN styled[n][prop] = Keyword("inline")
               ELSE prop \notin DOMAIN styled[n]

\* a grandchild that takes a declared color from its grandparent, below a parent
\* whose display and margin it did not take
C6_Witness ==
    \E a, n \in StyledElements :
        /\ UndeclaredChain(DeclaredProps, a, n, "color")
        /\ doc[n].parent # a
        /\ styled[a]["color"] = Keyword("blue")
        /\ styled[n]["color"] = Keyword("blue")
        /\ styled[a]["display"] = Keyword("block")
        /\ styled[n]["display"] = Keyword("inline")
        /\ "margin" \in DOMAIN styled[a]
        /\ "margin" \notin DOMAIN styled[n]

InheritedFrom(parent) ==
    [prop \in DOMAIN parent \cap FixedInheritableSet |-> parent[prop]]

NonElements == { n \in DOMAIN styled : doc[n].node_type \in {"Text", "Comment"} }

\* C7 as stated: every non-element node (text and comment alike) that has a
\* parent holds the parent's value for every inheritable property the parent
\* has, and nothing else.
C7_NonElementsInherit ==
    \A n \in NonElements :
        doc[n].parent # 0 => styled[n] = InheritedFrom(styled[doc[n].parent])

\* C7 as amended: every text node that has a parent holds the parent's value
\* for every inheritable property the parent has, and nothing else; the
\* property map of a comment node is empty.
C7_TextInheritsCommentEmpty ==
    \A n \in NonElements :
        /\ (doc[n].node_type = "Text" /\ doc[n].parent # 0)
            => styled[n] = InheritedFrom(styled[doc[n].parent])
        /\ doc[n].node_type = "Comment" => DOMAIN styled[n] = {}

\* a text node and a comment node under a parent with a declared color
C7_Witness ==
    \E t, c \in NonElements :
        /\ doc[t].node_type = "Text"
        /\ doc[c].node_type = "Comment"
        /\ doc[t].parent = doc[c].parent
        /\ styled[doc[t].parent]["color"] = Keyword("blue")
        /\ Get(styled[t], "font-weight") = Some(Keyword("bold"))
        /\ "display" \notin DOMAIN styled[t]
        /\ styled[t]["color"] = Keyword("blue")

Unmatched(elem) ==
    /\ "style" \notin DOMAIN elem.attrs
    /\ \A s \in 1..Len(sheets) : \A r \in 1..Len(sheets[s].rules) :
        \A k \in 1..Len(sheets[s].rules[r].selectors) :
            ~matches_simple_selector(elem, sheets[s].rules[r].selectors[k])

DisplayOf(values) ==
    IF "display" \in DOMAIN values /\ values["display"] = Keyword("block") THEN "Block"
    ELSE IF "display" \in DOMAIN values /\ values["display"] = Keyword("none") THEN "None"
    ELSE "Inline"

\* C8: every element of the style tree has display, color and font-size; an
\* element matched by no rule and without style attribute resolves display to
\* the keyword inline; the display query gives Block for the keyword block, None
\* for the keyword none and Inline otherwise.
C8_InitialValues ==
    /\ \A n \in StyledElements : {"display", "color", "font-size"} \subseteq DOMAIN styled[n]
    /\ \A n \in StyledElements :
        Unmatched(doc[n].elem) => styled[n]["display"] = Keyword("inline")
    /\ \A n \in DOMAIN styled : display(styled[n]) = DisplayOf(styled[n])

\* an unmatched element under a parent displayed as a block, and a node without
\* display
C8_Witness ==
    /\ \E n \in StyledElements :
        /\ doc[n].parent # 0
        /\ Unmatched(doc[n].elem)
        /\ display(styled[doc[n].parent]) = "Block"
        /\ display(styled[n]) = "Inline"
        /\ styled[n]["font-size"] = Length(16, 0)
    /\ \E m \in NonElements : "display" \notin DOMAIN styled[m]

StyleFails(elem) ==
    /\ "style" \in DOMAIN elem.attrs
    /\ ~parse(StyleWrapper(elem.attrs["style"]), "Author").ok

WithoutStyle(attrs) == [a \in DOMAIN attrs \ {"style"} |-> attrs[a]]

\* the document with the style attribute of node n removed
DocWithoutStyle(d, n) ==
    [d EXCEPT ![n] = Element(d[n].elem.tag_name, WithoutStyle(d[n].elem.attrs), d[n].parent)]

\* the values style_tree gives node m of document d
RECURSIVE TreeValues(_, _)
TreeValues(d, m) ==
    node_values(d[m], sheets,
                IF d[m].parent = 0 THEN None ELSE Some(TreeValues(d, d[m].parent)))

\* C9: a style attribute that fails to parse contributes no inline candidate;
\* the element's map, and the map of every other node of the tree, is what it
\* is for the same document without that style attribute.
C9_MalformedStyleIsolated ==
    pc = "done" =>
        \A n \in StyledElements :
            StyleFails(doc[n].elem) =>
                /\ \A c \in CandidateSet(doc[n].elem) : c.cascade_key[3] # InlineRuleIndex
                /\ \A m \in 1..Len(doc) : styled[m] = TreeValues(DocWithoutStyle(doc, n), m)

\* an element with a malformed style attribute, a matching rule, a parent and a
\* sibling
C9_Witness ==
    /\ pc = "done"
    /\ \E n \in StyledElements :
        /\ StyleFails(doc[n].elem)
        /\ doc[n].parent # 0
        /\ styled[n]["color"] = Keyword("red")
        /\ Get(styled[n], "font-weight") = Some(Keyword("bold"))
        /\ \E m \in DOMAIN styled : m # n /\ doc[m].parent = doc[n].parent

-----------------------------------------------------------------------------
(* The winner of the cascade, per property (Spec)                          *)

\* (rank, specificity, rule index) compared lexicographically
KeyGreater(a, b) ==
    \/ a[1] > b[1]
    \/ a[1] = b[1] /\ LexGreater(a[2], b[2])
    \/ a[1] = b[1] /\ a[2] = b[2] /\ a[3] > b[3]

\* two stylesheet candidates of equal rank and specificity, the second at the
\* larger rule index
TiedUpToIndex(c1, c2) ==
    /\ c1.cascade_key[3] # InlineRuleIndex
    /\ c2.cascade_key[3] # InlineRuleIndex
    /\ c1.cascade_key[1] = c2.cascade_key[1]
    /\ c1.cascade_key[2] = c2.cascade_key[2]
    /\ c1.cascade_key[3] < c2.cascade_key[3]

\* C11: what specified_values gives an element for a property is the value of
\* a candidate whose key is maximal, in the lexicographic order of (rank,
\* specificity, rule index), among the candidates of that property alone; a
\* property is in the result exactly when a candidate declares it; and of two
\* candidates of one stylesheet with equal rank and specificity that stand above
\* every other candidate of the property, the one at the larger rule index wins.
C11_MaximalKeyWins ==
    \A n \in DOMAIN cascaded :
        doc[n].node_type = "Element" =>
            LET cs == CandidateSet(doc[n].elem)
            IN  /\ DOMAIN cascaded[n] = { c.declaration.name : c \in cs }
                /\ \A prop \in DOMAIN cascaded[n] :
                    LET ps == { c \in cs : c.declaration.name = prop }
                    IN  /\ \E c \in ps :
                            /\ c.declaration.value = cascaded[n][prop]
                            /\ \A d \in ps : ~KeyGreater(d.cascade_key, c.cascade_key)
                        /\ \A c1, c2 \in ps :
                            (/\ TiedUpToIndex(c1, c2)
                             /\ \A d \in ps \ {c1, c2} :
                                    KeyGreater(c2.cascade_key, d.cascade_key))
                            => cascaded[n][prop] = c2.declaration.value

\* an element with two rules of equal specificity for font-size, resolved to
\* the later rule's value, and an element whose display and font-size are won by
\* candidates of different keys
C11_Witness ==
    /\ pc = "done"
    /\ \E n \in StyledElements :
        \E c1, c2 \in CandidatesFor(doc[n].elem, "font-size") :
            /\ CandidatesFor(doc[n].elem, "font-size") = {c1, c2}
            /\ TiedUpToIndex(c1, c2)
            /\ c1.declaration.value # c2.declaration.value
            /\ cascaded[n]["font-size"] = c2.declaration.value
    /\ \E n \in StyledElements :
        \E c1 \in CandidatesFor(doc[n].elem, "display"),
           c2 \in CandidatesFor(doc[n].elem, "font-size") :
            /\ c1.cascade_key # c2.cascade_key
            /\ cascaded[n]["display"] = c1.declaration.value
            /\ cascaded[n]["font-size"] = c2.declaration.value

-----------------------------------------------------------------------------
(* Lengths (SpecValue)                                                     *)

\* C12: every value text made of decimal digits, an optional point and more
\* digits, then px in any letter case, parses as the Length of that number in
\* Px: css::parse does not fail on it and does not make it a Keyword.
C12_DigitsParseAsLength ==
    [][\A whole \in Wholes, frac \in Fractions, unit \in UnitTexts :
        (/\ pc = "parse"
         /\ source # <<>>
         /\ Head(source).text = ValueSource(LengthText(whole, frac, unit)))
        => /\ pc' # "panicked"
           /\ Len(sheets') = 1
           /\ sheets'[1].rules[1].declarations[1].value
                = LET n == Decimal(whole, IF frac = None THEN "" ELSE frac[1])
                  IN  Length(n[1], n[2])]_vars

-----------------------------------------------------------------------------
(* Selector lists (SpecSelectors)                                          *)

ParsedRules ==
    UNION { { sheets[s].rules[r] : r \in 1..Len(sheets[s].rules) } : s \in 1..Len(sheets) }

MatchingSelectors(elem, rule) ==
    { i \in 1..Len(rule.selectors) : ConstraintsHold(elem, rule.selectors[i]) }

\* C13: the selectors of every parsed rule stand in non-increasing order of
\* specificity; match_rule gives no match exactly when no selector of the rule
\* matches the element, and otherwise the greatest specificity among the
\* selectors that match.
C13_SelectorsSorted ==
    \A rule \in ParsedRules :
        /\ \A i, j \in 1..Len(rule.selectors) :
            i < j => ~LexGreater(Counts(rule.selectors[j]), Counts(rule.selectors[i]))
        /\ LET hits == MatchingSelectors(TheElem, rule)
           IN  /\ match_rule(TheElem, rule) = None <=> hits = {}
               /\ hits # {} =>
                    \E i \in hits :
                        /\ match_rule(TheElem, rule) = Some(Counts(rule.selectors[i]))
                        /\ \A j \in hits :
                            ~LexGreater(Counts(rule.selectors[j]), Counts(rule.selectors[i]))
               /\ Resolved => ("color" \in DOMAIN cascaded[1] <=> hits # {})

\* a rule written as `div, #main`, parsed with the id selector first, matched
\* by an element that both selectors match
C13_Witness ==
    /\ pc = "done"
    /\ \E rule \in ParsedRules :
        /\ rule.declarations[1].value = Keyword(OrderName(<<1, 3>>))
        /\ rule.selectors = <<SimpleSelector(None, Some("main"), <<>>),
                              SimpleSelector(Some("div"), None, <<>>)>>
        /\ MatchingSelectors(TheElem, rule) = {1, 2}
        /\ match_rule(TheElem, rule) = Some(<<1, 0, 0>>)
        /\ "color" \in DOMAIN cascaded[1]

-----------------------------------------------------------------------------
(* Resolved values (Spec)                                                  *)

ConcreteKinds == {"Keyword", "Length", "ColorValue"}

\* C14: no node of the style tree holds the Inherit sentinel: a property
\* declared `inherit` ends up as the parent's value or an initial value, also on
\* the root element and under a parent that lacks the property, so display,
\* color and font-size of every element are Keyword, Length or Color values.
C14_NoInheritSentinel ==
    /\ \A n \in DOMAIN styled : \A prop \in DOMAIN styled[n] : styled[n][prop] # Inherit
    /\ \A n \in StyledElements : \A prop \in {"display", "color", "font-size"} :
        /\ prop \in DOMAIN styled[n]
        /\ styled[n][prop].kind \in ConcreteKinds

====
